---------------------------- MODULE Spec2Model ----------------------------
(***************************************************************************)
(* A model of the ERD / DBML generation pipeline of                        *)
(* airbyte-ci/connectors/pipelines/.../generate_erd_schema/pipeline.py.    *)
(*                                                                         *)
(* Python strings that the code splits or prefix-tests are modelled as     *)
(* sequences of one-character strings, so that str.split(".") and          *)
(* str.startswith are computed, not assumed.  JSON-schema type names are   *)
(* atomic tokens.  A Python value whose run-time type the code inspects    *)
(* (isinstance, ==) carries a tag: [kind |-> "str" | "list", val |-> ...]. *)
(***************************************************************************)
EXTENDS Integers, Sequences, FiniteSets, TLC

VARIABLES
    \* GenerateErdSchema._run
    configured_catalog,   \* the dict parsed from the discover output (mutable)
    catalog_file,         \* configured_catalog.json
    normalized_catalog,   \* what _normalize_schema_catalog returned
    response_json,        \* the relation mapping as the LLM returned it
    relation_dict,        \* the same dict object, pruned in place
    erd_file,             \* erd.json
    erd_pc,
    \* GenerateDbmlSchema._run
    catalog,              \* the AirbyteCatalog parsed from configured_catalog.json
    source_folder,        \* what the connector's folder holds
    relationships,        \* the "streams" list read from erd.json
    database,             \* the pydbml Database being built
    stream_i,             \* position of the loop of line 232
    rel_i,                \* position of the loop of line 265
    rel_todo,             \* keys left to the loop of line 266
    source_dbml,          \* source.dbml
    dbml_error,           \* the exception that ended the step
    dbml_pc,
    \* run_connector_generate_erd_schema_pipeline, one run per connector
    fail_fast,            \* context.run_step_options.fail_fast
    permits,              \* free slots of the semaphore
    run_pc,               \* where each run is
    runnables,            \* the part of steps_to_run each run has yet to take
    executing,            \* the steps of each run whose run() is in progress
    results               \* the StepResult status of each step of each run

erd_vars == <<configured_catalog, catalog_file, normalized_catalog,
              response_json, relation_dict, erd_file, erd_pc>>

dbml_vars == <<catalog, source_folder, relationships, database, stream_i,
               rel_i, rel_todo, source_dbml, dbml_error, dbml_pc>>

pipeline_vars == <<fail_fast, permits, run_pc, runnables, executing, results>>

vars == <<erd_vars, dbml_vars, pipeline_vars>>

----------------------------------------------------------------------------
(* Bounds *)

\* Largest total number of relations in one relation mapping.
MaxRelations == 2

\* Number of connectors the pipeline is run for at once.
MaxRuns == 2

----------------------------------------------------------------------------
(* Python values *)

PyStr(s) == [kind |-> "str", val |-> s]
PyList(l) == [kind |-> "list", val |-> l]

\* a == b for two tagged values: values of different types are unequal.
PyEq(a, b) == a.kind = b.kind /\ a.val = b.val

\* l == r for two Python lists of tagged values.
PyListEq(l, r) ==
    /\ Len(l) = Len(r)
    /\ \A i \in 1..Len(l) : PyEq(l[i], r[i])

Range(f) == {f[k] : k \in DOMAIN f}

\* dict.pop(key) for every key of keys.
Pop(d, keys) == [k \in (DOMAIN d) \ keys |-> d[k]]

\* str.split("."): the parts between the separators, empty parts kept.
RECURSIVE Split(_)
Split(s) ==
    IF \A i \in 1..Len(s) : s[i] # "."
    THEN <<s>>
    ELSE LET i == CHOOSE k \in 1..Len(s) :
                      s[k] = "." /\ \A j \in 1..(k-1) : s[j] # "."
         IN  <<SubSeq(s, 1, i-1)>> \o Split(SubSeq(s, i+1, Len(s)))

\* str.startswith(prefix)
StartsWith(s, prefix) ==
    /\ Len(prefix) <= Len(s)
    /\ SubSeq(s, 1, Len(prefix)) = prefix

\* The sequences without repetition over a subset of S.
DistinctSeqs(S) ==
    UNION { {f \in [1..Cardinality(T) -> T] :
                \A i, j \in 1..Cardinality(T) : i # j => f[i] # f[j]}
            : T \in SUBSET S }

\* The dicts from some of keys to values.
Dicts(keys, values) == UNION {[d -> values] : d \in SUBSET keys}

----------------------------------------------------------------------------
(* GenerateErdSchema: the inputs *)

\* Stream names; "a" is a proper prefix of "ab".
ErdStreamNames == {<<"a">>, <<"a", "b">>, <<"b">>}

PropertyNames == {<<"x">>, <<"y">>}

Absent == PyStr("")

\* A node of a json_schema property tree: its "type" (Absent when the dict
\* has no "type" key, what x.get("type", "") gives) and the types of the
\* dicts nested in it (items, properties, anyOf).
Node(type, sub) == [type |-> type, sub |-> sub]

PropertyNodes ==
    { Node(PyStr("string"), <<>>),
      Node(PyList(<<"null", "integer">>), <<>>),
      Node(PyStr("object"), <<PyStr("string")>>),
      Node(PyList(<<"null", "array">>), <<PyStr("integer")>>),
      Node(Absent, <<PyStr("object"), PyStr("string")>>) }

Stream(name, properties) == [name |-> name, properties |-> properties]

\* A discovered catalog: streams of distinct names over names, each with
\* properties drawn from props.
Catalogs(names, props) ==
    UNION { { [streams |-> [i \in 1..Len(ns) |-> Stream(ns[i], ps[i])]]
              : ps \in [1..Len(ns) -> props] }
            : ns \in DistinctSeqs(names) }

NormalizerCatalogs ==
    Catalogs({<<"a">>, <<"b">>}, Dicts(PropertyNames, PropertyNodes))

ScalarProperties == [k \in PropertyNames |-> Node(PyStr("string"), <<>>)]

ValidatorCatalogs == Catalogs(ErdStreamNames, {ScalarProperties})

RelationStreamNames == {<<"a">>, <<"b">>}

\* "a.x", "ab.x", "b.y" and "ab" (no separator).
RelationValues ==
    { <<"a", ".", "x">>, <<"a", "b", ".", "x">>, <<"b", ".", "y">>,
      <<"a", "b">> }

\* The number of relations in the dicts rs[1..n].
RECURSIVE SumSizes(_, _)
SumSizes(rs, n) ==
    IF n = 0 THEN 0
    ELSE Cardinality(DOMAIN rs[n]) + SumSizes(rs, n - 1)

\* The relation mappings {"streams": [{"name": ..., "relations": {...}}]}
\* with at most MaxRelations relations in all.
RelationDicts(names, keys, values) ==
    UNION { { [streams |-> [i \in 1..Len(ns) |->
                              [name |-> ns[i], relations |-> rs[i]]]]
              : rs \in {r \in [1..Len(ns) -> Dicts(keys, values)] :
                          SumSizes(r, Len(ns)) <= MaxRelations} }
            : ns \in DistinctSeqs(names) }

ErdRelationDicts ==
    RelationDicts(RelationStreamNames, PropertyNames, RelationValues)

----------------------------------------------------------------------------
(* GenerateErdSchema._normalize_schema_catalog *)

\* "array" in str(t) or "object" in str(t): the type names of a JSON schema
\* hold no other type name as a substring, so a str mentions a word when
\* it is the word, and the str() of a list when an element is.
Mentions(t, word) ==
    IF t.kind = "str" THEN t.val = word
    ELSE \E i \in 1..Len(t.val) : t.val[i] = word

\* The afilter of line 96, on a dict whose "type" is t.
normalize_afilter(t) == Mentions(t, "array") \/ Mentions(t, "object")

\* dpath.search(properties, ["**"], afilter=...): the filter sees every
\* node of the tree; the result's keys are the top-level properties with a
\* selected node at any depth.
to_rem(properties) ==
    { k \in DOMAIN properties :
        \/ normalize_afilter(properties[k].type)
        \/ \E i \in 1..Len(properties[k].sub) :
              normalize_afilter(properties[k].sub[i]) }

\* The streams list after the loop of lines 92-99, which pops from the
\* caller's own property dicts.
normalize_streams(streams) ==
    [i \in 1..Len(streams) |->
        [streams[i] EXCEPT !.properties = Pop(@, to_rem(@))]]

----------------------------------------------------------------------------
(* GenerateErdSchema._remove_non_existing_relations *)

all_streams_names(discovered_catalog_schema) ==
    [i \in 1..Len(discovered_catalog_schema.streams) |->
        discovered_catalog_schema.streams[i].name]

ref_tables(relations) == {Split(relations[k])[1] : k \in DOMAIN relations}

\* A filter that selects a value only when it is the missing name itself.
relation_afilter_equal(x, non_existing_stream) == x = non_existing_stream

\* The afilter of line 145.
relation_afilter(x, non_existing_stream) == StartsWith(x, non_existing_stream)

\* dpath.search(stream["relations"], ["**"], afilter=...) on a flat dict of
\* strings: the keys whose value the filter selects.
relation_search(relations, non_existing_stream) ==
    { k \in DOMAIN relations :
        relation_afilter(relations[k], non_existing_stream) }

\* The loop of lines 144-147 over the set non_existing_streams.
RECURSIVE pop_non_existing(_, _)
pop_non_existing(relations, non_existing_streams) ==
    IF non_existing_streams = {} THEN relations
    ELSE LET non_existing_stream == CHOOSE n \in non_existing_streams : TRUE
             keys == relation_search(relations, non_existing_stream)
         IN  pop_non_existing(Pop(relations, keys),
                              non_existing_streams \ {non_existing_stream})

_remove_non_existing_relations(discovered_catalog_schema, relations_in) ==
    LET names == Range(all_streams_names(discovered_catalog_schema))
    IN  [relations_in EXCEPT !.streams =
            [i \in 1..Len(@) |->
                [@[i] EXCEPT !.relations =
                    pop_non_existing(@, ref_tables(@) \ names)]]]

----------------------------------------------------------------------------
(* GenerateErdSchema._run *)

NotYet == "unset"

\* The other step has not started.
DbmlIdle ==
    /\ catalog = NotYet
    /\ source_folder = NotYet
    /\ relationships = <<>>
    /\ database = NotYet
    /\ stream_i = 0
    /\ rel_i = 0
    /\ rel_todo = {}
    /\ source_dbml = NotYet
    /\ dbml_error = NotYet
    /\ dbml_pc = "idle"

PipelineIdle ==
    /\ fail_fast = TRUE
    /\ permits = 0
    /\ run_pc = <<>>
    /\ runnables = <<>>
    /\ executing = <<>>
    /\ results = <<>>

ErdIdle ==
    /\ configured_catalog = NotYet
    /\ catalog_file = NotYet
    /\ normalized_catalog = NotYet
    /\ response_json = NotYet
    /\ relation_dict = NotYet
    /\ erd_file = NotYet
    /\ erd_pc = "idle"

\* A Python reference to the list configured_catalog["streams"].
StreamsOf == [ref |-> "configured_catalog", key |-> "streams"]

\* line 61: json.dump(configured_catalog, ...)
DumpConfiguredCatalog ==
    /\ erd_pc = "discovered"
    /\ catalog_file' = configured_catalog
    /\ erd_pc' = "dumped"
    /\ UNCHANGED <<configured_catalog, normalized_catalog, response_json,
                   relation_dict, erd_file>>
    /\ UNCHANGED <<dbml_vars, pipeline_vars>>

\* line 63: normalized_catalog = self._normalize_schema_catalog(configured_catalog)
NormalizeSchemaCatalog ==
    /\ erd_pc = "dumped"
    /\ configured_catalog' =
          [configured_catalog EXCEPT !.streams = normalize_streams(@)]
    /\ normalized_catalog' = StreamsOf
    /\ erd_pc' = "normalized"
    /\ UNCHANGED <<catalog_file, response_json, relation_dict, erd_file>>
    /\ UNCHANGED <<dbml_vars, pipeline_vars>>

\* line 64: the LLM's answer is any relation mapping.
GetRelationsFromGemini ==
    /\ erd_pc = "normalized"
    /\ \E response \in ErdRelationDicts :
          /\ response_json' = response
          /\ relation_dict' = response
    /\ erd_pc' = "proposed"
    /\ UNCHANGED <<configured_catalog, catalog_file, normalized_catalog,
                   erd_file>>
    /\ UNCHANGED <<dbml_vars, pipeline_vars>>

\* line 65: clean_schema = self._remove_non_existing_relations(...)
RemoveNonExistingRelations ==
    /\ erd_pc = "proposed"
    /\ relation_dict' =
          _remove_non_existing_relations(configured_catalog, relation_dict)
    /\ erd_pc' = "validated"
    /\ UNCHANGED <<configured_catalog, catalog_file, normalized_catalog,
                   response_json, erd_file>>
    /\ UNCHANGED <<dbml_vars, pipeline_vars>>

\* line 68: json.dump(clean_schema, ...)
DumpErd ==
    /\ erd_pc = "validated"
    /\ erd_file' = relation_dict
    /\ erd_pc' = "done"
    /\ UNCHANGED <<configured_catalog, catalog_file, normalized_catalog,
                   response_json, relation_dict>>
    /\ UNCHANGED <<dbml_vars, pipeline_vars>>

InitNormalizer ==
    /\ configured_catalog \in NormalizerCatalogs
    /\ catalog_file = NotYet
    /\ normalized_catalog = NotYet
    /\ response_json = NotYet
    /\ relation_dict = NotYet
    /\ erd_file = NotYet
    /\ erd_pc = "discovered"
    /\ DbmlIdle
    /\ PipelineIdle

NextNormalizer ==
    \/ DumpConfiguredCatalog
    \/ NormalizeSchemaCatalog

\* Discovery, the snapshot and the normalisation of a catalog.
SpecNormalizer == InitNormalizer /\ [][NextNormalizer]_vars

InitValidator ==
    /\ configured_catalog \in ValidatorCatalogs
    /\ catalog_file = configured_catalog
    /\ normalized_catalog = StreamsOf
    /\ response_json = NotYet
    /\ relation_dict = NotYet
    /\ erd_file = NotYet
    /\ erd_pc = "normalized"
    /\ DbmlIdle
    /\ PipelineIdle

NextValidator ==
    \/ GetRelationsFromGemini
    \/ RemoveNonExistingRelations
    \/ DumpErd

\* The proposal and the validation of relations, from a normalised catalog.
SpecValidator == InitValidator /\ [][NextValidator]_vars

----------------------------------------------------------------------------
(* Claims about GenerateErdSchema *)

Validated == erd_pc \in {"validated", "done"}

CatalogNames == Range(all_streams_names(configured_catalog))

\* The text before the first "." of a relation value.
TargetTable(value) == Split(value)[1]

\* C1: after _remove_non_existing_relations, the target table of every
\* relation left in every stream entry is the name of a stream of the
\* discovered catalog.
C1_RemainingTargetsExist ==
    Validated =>
        \A i \in 1..Len(relation_dict.streams) :
            \A k \in DOMAIN relation_dict.streams[i].relations :
                TargetTable(relation_dict.streams[i].relations[k])
                    \in CatalogNames

\* A validation that removed a relation to a missing table and kept
\* another relation of the same stream entry.
C1_Witness ==
    /\ erd_pc = "validated"
    /\ \E i \in 1..Len(relation_dict.streams) :
          LET before == response_json.streams[i].relations
              after == relation_dict.streams[i].relations
          IN  /\ DOMAIN after # {}
              /\ \E k \in DOMAIN before :
                    /\ k \notin DOMAIN after
                    /\ TargetTable(before[k]) \notin CatalogNames

\* C2: _remove_non_existing_relations removes a relation if and only if its
\* target table is not a stream of the catalog: a relation to an existing
\* table is kept unchanged, also when a missing name is a proper prefix of
\* that table's name, and every stream entry is kept.
C2_RemovesExactlyMissingTargets ==
    Validated =>
        /\ Len(relation_dict.streams) = Len(response_json.streams)
        /\ \A i \in 1..Len(response_json.streams) :
              LET before == response_json.streams[i].relations
                  after == relation_dict.streams[i].relations
              IN  /\ relation_dict.streams[i].name
                        = response_json.streams[i].name
                  /\ DOMAIN after \subseteq DOMAIN before
                  /\ \A k \in DOMAIN before :
                        IF TargetTable(before[k]) \in CatalogNames
                        THEN k \in DOMAIN after /\ after[k] = before[k]
                        ELSE k \notin DOMAIN after

\* C4: _normalize_schema_catalog has no side effect on its input: after it
\* returns, every stream of the caller's catalog has exactly the properties
\* it had before the call, those of the snapshot written just before it.
C4_NormalizerLeavesInputUnchanged ==
    erd_pc = "normalized" =>
        /\ Len(configured_catalog.streams) = Len(catalog_file.streams)
        /\ \A i \in 1..Len(configured_catalog.streams) :
              configured_catalog.streams[i].properties
                  = catalog_file.streams[i].properties

----------------------------------------------------------------------------
(* GenerateDbmlSchema: results and exceptions *)

\* A call that returned val, and a call that raised exception exc.
Ok(val) == [ok |-> TRUE, val |-> val]
Raise(exc) == [ok |-> FALSE, val |-> exc]

NotImplemented == "NotImplementedError"
TypeError == "ValueError: Expected only one type apart from null"
NestedKeyError == "ValueError: Does not support nested key as part of primary key"
MissingPkError == "ValueError: Unexpected error: missing PK column from dbml table"
NestedRelationError == "ValueError: relationship to nested fields is not supported"
NoTableError == "ValueError: Could not find table"
ManyTablesError == "ValueError: Unexpected error: many tables found"
NoColumnError == "ValueError: Could not find column"
ManyColumnsError == "ValueError: Unexpected error: many columns found"

----------------------------------------------------------------------------
(* GenerateDbmlSchema: the inputs *)

DbmlStreamNames == {<<"a">>, <<"b">>}

X == <<"x">>
Y == <<"y">>

Integer == PyStr("integer")
NullableString == PyList(<<"null", "string">>)
TwoTypes == PyList(<<"string", "integer">>)

\* One path of source_defined_primary_key (List[List[str]]): a list of
\* property names.
Key(path) == PyList(path)

\* An AirbyteStream: its name, json_schema["properties"] as property name ->
\* "type", and source_defined_primary_key.
AirbyteStream(name, properties, primary_key) ==
    [name |-> name, properties |-> properties,
     source_defined_primary_key |-> primary_key]

\* The (properties, primary key) pairs of the streams of a catalog: a simple
\* key, a composite key, a composite key over a missing property, a
\* composite key with a nested path, a composite key naming one property
\* twice, an ambiguous type, and no key.
StreamShapes ==
    { <<(X :> Integer @@ Y :> NullableString), <<Key(<<X>>)>> >>,
      <<(X :> Integer @@ Y :> NullableString), <<Key(<<X>>), Key(<<Y>>)>> >>,
      <<(X :> Integer), <<Key(<<X>>), Key(<<Y>>)>> >>,
      <<(X :> Integer @@ Y :> NullableString), <<Key(<<X>>), Key(<<X, Y>>)>> >>,
      <<(X :> Integer @@ Y :> NullableString), <<Key(<<Y>>), Key(<<Y>>)>> >>,
      <<(X :> TwoTypes), <<>> >>,
      <<(Y :> Integer), <<>> >> }

\* The catalogs: streams of distinct names, each of one of the shapes.
DbmlCatalogs ==
    UNION { { [streams |-> [i \in 1..Len(ns) |->
                              AirbyteStream(ns[i], sh[i][1], sh[i][2])]]
              : sh \in [1..Len(ns) -> StreamShapes] }
            : ns \in DistinctSeqs(DbmlStreamNames) }

\* The connector's folder: whether it holds a manifest.yaml, and the names
\* of the files of its schemas folder.
\* Stream "c" may have a schema file without being in the catalog.
SchemaFileNames == DbmlStreamNames \cup {<<"c">>}

SourceFolders ==
    [has_manifest : BOOLEAN, schemas : SUBSET SchemaFileNames]

\* "b.x", "c.x" and "a.b.x" (three parts).
DbmlRelationValues ==
    { <<"b", ".", "x">>, <<"c", ".", "x">>, <<"a", ".", "b", ".", "x">> }

\* The contents of erd.json.
ErdFiles == RelationDicts(DbmlStreamNames, PropertyNames, DbmlRelationValues)

----------------------------------------------------------------------------
(* GenerateDbmlSchema: the helpers *)

\* list.remove(x): the list without its first x.
RECURSIVE RemoveFirst(_, _)
RemoveFirst(l, x) ==
    IF l = <<>> THEN <<>>
    ELSE IF Head(l) = x THEN Tail(l)
    ELSE <<Head(l)>> \o RemoveFirst(Tail(l), x)

_extract_type(property_type) ==
    IF property_type.kind = "str" THEN Ok(property_type.val)
    ELSE LET listed == property_type.val
             types == IF \E i \in 1..Len(listed) : listed[i] = "null"
                      THEN RemoveFirst(listed, "null")
                      ELSE listed
         IN  IF Len(types) # 1 THEN Raise(TypeError) ELSE Ok(types[1])

\* A comparison with every key path that holds the property.
_is_pk_in_any_key(stream, property_name) ==
    \E i \in 1..Len(stream.source_defined_primary_key) :
        \E j \in 1..Len(stream.source_defined_primary_key[i].val) :
            stream.source_defined_primary_key[i].val[j] = property_name

\* stream.source_defined_primary_key == [property_name]: a list of key
\* paths compared with a list of one str.
_is_pk(stream, property_name) ==
    PyListEq(stream.source_defined_primary_key, <<PyStr(property_name)>>)

_has_manifest == source_folder.has_manifest

_get_streams_from_schemas_folder == source_folder.schemas

\* A stream that is never dynamic.
_is_dynamic_never(stream_name) == Ok(FALSE)

_is_dynamic(stream_name) ==
    IF _has_manifest THEN Raise(NotImplemented)
    ELSE Ok(stream_name \notin _get_streams_from_schemas_folder)

Column(name, type, pk) == [name |-> name, type |-> type, pk |-> pk]
Index(subjects, pk) == [subjects |-> subjects, pk |-> pk]
Table(name, columns, indexes) ==
    [name |-> name, columns |-> columns, indexes |-> indexes]
\* A Reference between two columns, each held by its table.
Reference(type, col1, col2) == [type |-> type, col1 |-> col1, col2 |-> col2]
ColumnOf(table_name, column) == [table |-> table_name, name |-> column.name]

\* filter(...) of lines 191 and 198: the elements of a list that satisfy a
\* test, as the set of their positions.
MatchingTables(db, table_name) ==
    {i \in 1..Len(db.tables) : db.tables[i].name = table_name}

\* A lookup that takes the column's existence for granted.
_get_column_unchecked(db, table_name, column_name) ==
    LET matching_tables == MatchingTables(db, table_name)
    IN  IF Cardinality(matching_tables) = 0 THEN Raise(NoTableError)
        ELSE Ok([table |-> table_name, name |-> column_name])

_get_column(db, table_name, column_name) ==
    LET matching_tables == MatchingTables(db, table_name)
    IN  IF Cardinality(matching_tables) = 0 THEN Raise(NoTableError)
        ELSE IF Cardinality(matching_tables) > 1 THEN Raise(ManyTablesError)
        ELSE LET table == db.tables[CHOOSE i \in matching_tables : TRUE]
                 matching_columns ==
                     {c \in table.columns : c.name = column_name}
             IN  IF Cardinality(matching_columns) = 0
                 THEN Raise(NoColumnError)
                 ELSE IF Cardinality(matching_columns) > 1
                 THEN Raise(ManyColumnsError)
                 ELSE Ok(ColumnOf(table_name,
                                  CHOOSE c \in matching_columns : TRUE))

----------------------------------------------------------------------------
(* GenerateDbmlSchema._run: one table *)

\* The columns of lines 238-245, or the exception _extract_type raised.
table_columns(stream) ==
    LET properties == stream.properties
    IN  IF \E k \in DOMAIN properties : ~_extract_type(properties[k]).ok
        THEN Raise(TypeError)
        ELSE Ok({ Column(k, _extract_type(properties[k]).val,
                         _is_pk(stream, k))
                  : k \in DOMAIN properties })

\* [column for key in keys for column in columns if column.name in key]
RECURSIVE composite_key_columns(_, _)
composite_key_columns(keys, columns) ==
    IF keys = <<>> THEN <<>>
    ELSE LET key == Head(keys).val
             found == {c \in columns :
                          \E j \in 1..Len(key) : key[j] = c.name}
         IN  (IF found = {} THEN <<>> ELSE <<CHOOSE c \in found : TRUE>>)
             \o composite_key_columns(Tail(keys), columns)

\* The indexes of lines 247-262, or the exception raised.
table_indexes(stream, columns) ==
    LET keys == stream.source_defined_primary_key
    IN  IF keys # <<>> /\ Len(keys) > 1
        THEN IF \E i \in 1..Len(keys) : Len(keys[i].val) # 1
             THEN Raise(NestedKeyError)
             ELSE IF Len(composite_key_columns(keys, columns)) < Len(keys)
             THEN Raise(MissingPkError)
             ELSE Ok(<<Index(composite_key_columns(keys, columns), TRUE)>>)
        ELSE Ok(<<>>)

\* The body of the loop of line 232 for a stream that is not dynamic.
build_table(stream) ==
    LET columns == table_columns(stream)
    IN  IF ~columns.ok THEN columns
        ELSE LET indexes == table_indexes(stream, columns.val)
             IN  IF ~indexes.ok THEN indexes
                 ELSE Ok(Table(stream.name, columns.val, indexes.val))

----------------------------------------------------------------------------
(* GenerateDbmlSchema._run: one relation *)

\* A split that keeps the first two of several parts.
split_relationship_first_two(relationship) ==
    LET parts == Split(relationship)
    IN  IF Len(parts) < 2 THEN Raise(NestedRelationError)
        ELSE Ok(<<parts[1], parts[2]>>)

\* target_table_name, target_column_name = relationship.split(".")
split_relationship(relationship) ==
    LET parts == Split(relationship)
    IN  IF Len(parts) # 2 THEN Raise(NestedRelationError) ELSE Ok(parts)

\* What one iteration of the loop of line 266 did when it raised nothing:
\* continue, or database.add_reference(reference).
Skipped == [skipped |-> TRUE]
Added(reference) == [skipped |-> FALSE, reference |-> reference]

\* The body of the loop of line 266 once the stream is known not to be
\* dynamic: what it did, or the exception raised.
build_reference(db, stream_name, column_name, relationship) ==
    LET target == split_relationship(relationship)
    IN  IF ~target.ok THEN target
        ELSE LET target_dynamic == _is_dynamic(target.val[1])
             IN  IF ~target_dynamic.ok THEN target_dynamic
                 ELSE IF target_dynamic.val THEN Ok(Skipped)
                 ELSE LET col1 == _get_column(db, stream_name, column_name)
                          col2 == _get_column(db, target.val[1],
                                              target.val[2])
                      IN  IF ~col1.ok THEN col1
                          ELSE IF ~col2.ok THEN col2
                          ELSE Ok(Added(Reference("<>", col1.val,
                                                      col2.val)))

----------------------------------------------------------------------------
(* GenerateDbmlSchema._run *)

Fail(exc) ==
    /\ dbml_pc' = "error"
    /\ dbml_error' = exc

\* lines 232-263: one iteration of the loop over catalog.streams.
AddTable ==
    /\ dbml_pc = "tables"
    /\ stream_i <= Len(catalog.streams)
    /\ LET stream == catalog.streams[stream_i]
           dynamic == _is_dynamic(stream.name)
           table == build_table(stream)
       IN  IF ~dynamic.ok
           THEN Fail(dynamic.val) /\ UNCHANGED <<database, stream_i>>
           ELSE IF dynamic.val
           THEN /\ stream_i' = stream_i + 1
                /\ UNCHANGED <<database, dbml_pc, dbml_error>>
           ELSE IF ~table.ok
           THEN Fail(table.val) /\ UNCHANGED <<database, stream_i>>
           ELSE /\ database' = [database EXCEPT
                                   !.tables = Append(@, table.val)]
                /\ stream_i' = stream_i + 1
                /\ UNCHANGED <<dbml_pc, dbml_error>>
    /\ UNCHANGED <<catalog, source_folder, relationships, rel_i, rel_todo,
                   source_dbml>>
    /\ UNCHANGED <<erd_vars, pipeline_vars>>

\* line 265: self._get_relationships_by_stream(erd.json)
GetRelationshipsByStream ==
    /\ dbml_pc = "tables"
    /\ stream_i > Len(catalog.streams)
    /\ \E erd \in ErdFiles : relationships' = erd.streams
    /\ rel_i' = 0
    /\ rel_todo' = {}
    /\ dbml_pc' = "relations"
    /\ UNCHANGED <<catalog, source_folder, database, stream_i, source_dbml,
                   dbml_error>>
    /\ UNCHANGED <<erd_vars, pipeline_vars>>

\* lines 265-266: the next stream of the relationships and its relations.
NextRelationStream ==
    /\ dbml_pc = "relations"
    /\ rel_todo = {}
    /\ rel_i < Len(relationships)
    /\ rel_i' = rel_i + 1
    /\ rel_todo' = DOMAIN relationships[rel_i + 1].relations
    /\ UNCHANGED <<catalog, source_folder, relationships, database, stream_i,
                   source_dbml, dbml_error, dbml_pc>>
    /\ UNCHANGED <<erd_vars, pipeline_vars>>

\* lines 266-286: one iteration of the loop over stream["relations"].
AddReference ==
    /\ dbml_pc = "relations"
    /\ \E column_name \in rel_todo :
         LET stream == relationships[rel_i]
             dynamic == _is_dynamic(stream.name)
             reference == build_reference(database, stream.name, column_name,
                                          stream.relations[column_name])
         IN  IF ~dynamic.ok
             THEN Fail(dynamic.val) /\ UNCHANGED <<database, rel_todo>>
             ELSE IF dynamic.val
             THEN /\ rel_todo' = rel_todo \ {column_name}
                  /\ UNCHANGED <<database, dbml_pc, dbml_error>>
             ELSE IF ~reference.ok
             THEN Fail(reference.val) /\ UNCHANGED <<database, rel_todo>>
             ELSE IF reference.val.skipped
             THEN /\ rel_todo' = rel_todo \ {column_name}
                  /\ UNCHANGED <<database, dbml_pc, dbml_error>>
             ELSE /\ database' = [database EXCEPT
                                     !.refs = @ \cup {reference.val.reference}]
                  /\ rel_todo' = rel_todo \ {column_name}
                  /\ UNCHANGED <<dbml_pc, dbml_error>>
    /\ UNCHANGED <<catalog, source_folder, relationships, stream_i, rel_i,
                   source_dbml>>
    /\ UNCHANGED <<erd_vars, pipeline_vars>>

\* lines 289-292: the rendered database is written to source.dbml.
WriteDbml ==
    /\ dbml_pc = "relations"
    /\ rel_todo = {}
    /\ rel_i = Len(relationships)
    /\ source_dbml' = database
    /\ dbml_pc' = "done"
    /\ UNCHANGED <<catalog, source_folder, relationships, database, stream_i,
                   rel_i, rel_todo, dbml_error>>
    /\ UNCHANGED <<erd_vars, pipeline_vars>>

InitDbml ==
    /\ catalog \in DbmlCatalogs
    /\ source_folder \in SourceFolders
    /\ relationships = <<>>
    /\ database = [tables |-> <<>>, refs |-> {}]
    /\ stream_i = 1
    /\ rel_i = 0
    /\ rel_todo = {}
    /\ source_dbml = NotYet
    /\ dbml_error = NotYet
    /\ dbml_pc = "tables"
    /\ ErdIdle
    /\ PipelineIdle

NextDbml ==
    \/ AddTable
    \/ GetRelationshipsByStream
    \/ NextRelationStream
    \/ AddReference
    \/ WriteDbml

\* The build of the schema model from a catalog and the relations of erd.json.
SpecDbml == InitDbml /\ [][NextDbml]_vars

----------------------------------------------------------------------------
(* Claims about GenerateDbmlSchema *)

\* The stream of the catalog a table was built for.
StreamOfTable(table) ==
    catalog.streams[CHOOSE i \in 1..Len(catalog.streams) :
                        catalog.streams[i].name = table.name]

BuiltTables == Range(database.tables)

\* A stream with a static schema file in the connector's folder.
NotDynamic(stream_name) == stream_name \in source_folder.schemas

HasColumn(table_name, column_name) ==
    \E t \in BuiltTables :
        t.name = table_name /\ \E c \in t.columns : c.name = column_name

\* The relations of erd.json as (stream name, column name, value) triples.
Relations ==
    UNION { { <<relationships[i].name, k, relationships[i].relations[k]>>
              : k \in DOMAIN relationships[i].relations }
            : i \in 1..Len(relationships) }

WellFormed(value) == Len(Split(value)) = 2

\* The relation a Reference was built from.
RelationOf(reference) ==
    { rel \in Relations :
        rel[1] = reference.col1.table /\ rel[2] = reference.col1.name }

\* C3: the schema model never holds a Reference whose two endpoint columns
\* belong to the same table.
C3_NoSelfReference ==
    \A r \in database.refs : r.col1.table # r.col2.table

\* C5: the table of a stream whose primary key has exactly one element (a
\* one-segment path naming a property) has that column flagged as primary
\* key, no other column flagged, and no Index.
C5_SimpleKeyColumnIsPrimary ==
    \A t \in BuiltTables :
        LET keys == StreamOfTable(t).source_defined_primary_key
        IN  ( /\ Len(keys) = 1
              /\ Len(keys[1].val) = 1
              /\ keys[1].val[1] \in DOMAIN StreamOfTable(t).properties )
            => /\ \A c \in t.columns : c.pk <=> (c.name = keys[1].val[1])
               /\ t.indexes = <<>>

\* C6: the table of a stream whose primary key has more than one element,
\* all one-segment paths naming properties of the stream, carries exactly
\* one primary-key Index, over the columns the key names in the key's
\* order, and none of its columns is flagged as primary key.
C6_CompositeKeyIsOneIndex ==
    \A t \in BuiltTables :
        LET keys == StreamOfTable(t).source_defined_primary_key
        IN  ( /\ Len(keys) > 1
              /\ \A i \in 1..Len(keys) :
                    /\ Len(keys[i].val) = 1
                    /\ keys[i].val[1] \in DOMAIN StreamOfTable(t).properties )
            => /\ Len(t.indexes) = 1
               /\ t.indexes[1].pk
               /\ Len(t.indexes[1].subjects) = Len(keys)
               /\ \A i \in 1..Len(keys) :
                     /\ t.indexes[1].subjects[i] \in t.columns
                     /\ t.indexes[1].subjects[i].name = keys[i].val[1]
               /\ \A c \in t.columns : ~c.pk

\* A table built with a composite-key Index.
C6_Witness ==
    \E t \in BuiltTables :
        /\ Len(StreamOfTable(t).source_defined_primary_key) > 1
        /\ Len(t.indexes) = 1
        /\ Cardinality(Range(t.indexes[1].subjects)) > 1

\* C7: the schema model never holds a Reference with an endpoint in the
\* table of a dynamic stream, be it the relation's source or its target.
C7_NoReferenceToDynamicStream ==
    \A r \in database.refs :
        NotDynamic(r.col1.table) /\ NotDynamic(r.col2.table)

\* A finished build that added a Reference between two tables and skipped
\* a relation to a dynamic stream.
C7_Witness ==
    /\ dbml_pc = "done"
    /\ \E r \in database.refs : r.col1.table # r.col2.table
    /\ \E rel \in Relations :
          /\ NotDynamic(rel[1])
          /\ WellFormed(rel[3])
          /\ ~NotDynamic(Split(rel[3])[1])

\* C8 as claimed: whenever the relations hold a value that does not split
\* on "." into exactly two parts, the build fails and no Reference is
\* created for that relation.
C8_MalformedRelationFailsBuild ==
    /\ dbml_pc = "done" => \A rel \in Relations : WellFormed(rel[3])
    /\ \A r \in database.refs :
          \A rel \in RelationOf(r) : WellFormed(rel[3])

\* C8 as amended: whenever the relations hold, for a stream that is not
\* dynamic, a value that does not split on "." into exactly two parts, the
\* build fails and no Reference is created for that relation.
C8_MalformedRelationOfStaticStreamFailsBuild ==
    /\ dbml_pc = "done" =>
          \A rel \in Relations : NotDynamic(rel[1]) => WellFormed(rel[3])
    /\ \A r \in database.refs :
          \A rel \in RelationOf(r) : WellFormed(rel[3])
    /\ dbml_pc = "error" => source_dbml = NotYet

\* A build that a three-part relation value ended.
C8_Witness ==
    /\ dbml_pc = "error"
    /\ dbml_error = NestedRelationError
    /\ \E rel \in Relations : NotDynamic(rel[1]) /\ Len(Split(rel[3])) = 3

\* C9: a relation between two streams that are not dynamic whose local
\* column or target column is missing from its table ends the build with
\* an error before source.dbml is written, and no Reference ever has an
\* endpoint that is not a column of a table of the model.
C9_MissingColumnFailsBuild ==
    /\ dbml_pc = "done" =>
          \A rel \in Relations :
              ( /\ WellFormed(rel[3])
                /\ NotDynamic(rel[1])
                /\ NotDynamic(Split(rel[3])[1]) )
              => /\ HasColumn(rel[1], rel[2])
                 /\ HasColumn(Split(rel[3])[1], Split(rel[3])[2])
    /\ \A r \in database.refs :
          /\ HasColumn(r.col1.table, r.col1.name)
          /\ HasColumn(r.col2.table, r.col2.name)
    /\ dbml_pc = "error" => source_dbml = NotYet

\* A build that a missing column ended, both tables being in the model.
C9_Witness ==
    /\ dbml_pc = "error"
    /\ dbml_error = NoColumnError
    /\ source_dbml = NotYet
    /\ \E rel \in Relations :
          /\ WellFormed(rel[3])
          /\ \E t \in BuiltTables : t.name = rel[1]
          /\ \E t \in BuiltTables : t.name = Split(rel[3])[1]
          /\ ~HasColumn(Split(rel[3])[1], Split(rel[3])[2])

----------------------------------------------------------------------------
(* run_connector_generate_erd_schema_pipeline *)

\* CONNECTOR_TEST_STEP_ID
BUILD == "build"
AIRBYTE_ERD_GENERATE == "airbyte_erd_generate"
AIRBYTE_DBML_GENERATE == "airbyte_dbml_generate"
AIRBYTE_DBML_UPLOAD == "airbyte_dbml_upload"

\* StepStatus
SUCCESS == "SUCCESS"
FAILURE == "FAILURE"
SKIPPED == "SKIPPED"

StepToRun(id, depends_on) == [id |-> id, depends_on |-> depends_on]

\* A tree that appends the upload to the list of the DBML generation.
steps_to_run_shared_list ==
    << <<StepToRun(BUILD, {})>>,
       <<StepToRun(AIRBYTE_ERD_GENERATE, {BUILD})>>,
       <<StepToRun(AIRBYTE_DBML_GENERATE, {AIRBYTE_ERD_GENERATE}),
         StepToRun(AIRBYTE_DBML_UPLOAD, {AIRBYTE_ERD_GENERATE})>> >>

\* The STEP_TREE of lines 328-361: four lists of one step each.
steps_to_run ==
    << <<StepToRun(BUILD, {})>>,
       <<StepToRun(AIRBYTE_ERD_GENERATE, {BUILD})>>,
       <<StepToRun(AIRBYTE_DBML_GENERATE, {AIRBYTE_ERD_GENERATE})>>,
       <<StepToRun(AIRBYTE_DBML_UPLOAD, {AIRBYTE_DBML_GENERATE})>> >>

Runs == 1..MaxRuns

StepsOf(tree) == UNION {Range(tree[i]) : i \in 1..Len(tree)}

\* run_steps: a step runs when every step it depends on succeeded.
dependencies_succeeded(step, run_results) ==
    \A d \in step.depends_on :
        d \in DOMAIN run_results /\ run_results[d] = SUCCESS

\* run_steps: the results extended by status for the steps of ids.
with_results(run_results, ids, status) ==
    [id \in DOMAIN run_results \cup ids |->
        IF id \in ids THEN status ELSE run_results[id]]

\* run_connector_steps: async with semaphore
AcquireSemaphore(r) ==
    /\ run_pc[r] = "waiting"
    /\ permits > 0
    /\ permits' = permits - 1
    /\ run_pc' = [run_pc EXCEPT ![r] = "running"]
    /\ UNCHANGED <<fail_fast, runnables, executing, results>>
    /\ UNCHANGED <<erd_vars, dbml_vars>>

\* run_steps with fail_fast, after a failure: what is left is skipped.
SkipRemainingSteps(r) ==
    /\ run_pc[r] = "running"
    /\ executing[r] = {}
    /\ runnables[r] # <<>>
    /\ fail_fast
    /\ \E id \in DOMAIN results[r] : results[r][id] = FAILURE
    /\ results' = [results EXCEPT ![r] =
          with_results(@, {s.id : s \in StepsOf(runnables[r])}, SKIPPED)]
    /\ runnables' = [runnables EXCEPT ![r] = <<>>]
    /\ UNCHANGED <<fail_fast, permits, run_pc, executing>>
    /\ UNCHANGED <<erd_vars, dbml_vars>>

\* run_steps: the next list of the tree is taken, its steps with a
\* dependency that did not succeed are skipped, the others are started
\* together.
StartSteps(r) ==
    /\ run_pc[r] = "running"
    /\ executing[r] = {}
    /\ runnables[r] # <<>>
    /\ ~(fail_fast /\ \E id \in DOMAIN results[r] : results[r][id] = FAILURE)
    /\ LET steps == Range(Head(runnables[r]))
           to_run == {s \in steps : dependencies_succeeded(s, results[r])}
       IN  /\ executing' = [executing EXCEPT ![r] = {s.id : s \in to_run}]
           /\ results' = [results EXCEPT ![r] =
                 with_results(@, {s.id : s \in steps \ to_run}, SKIPPED)]
    /\ runnables' = [runnables EXCEPT ![r] = Tail(@)]
    /\ UNCHANGED <<fail_fast, permits, run_pc>>
    /\ UNCHANGED <<erd_vars, dbml_vars>>

\* Step.run returns: _run returned its StepResult, or raised.
FinishStep(r) ==
    /\ run_pc[r] = "running"
    /\ \E id \in executing[r], status \in {SUCCESS, FAILURE} :
          /\ executing' = [executing EXCEPT ![r] = @ \ {id}]
          /\ results' = [results EXCEPT ![r] = with_results(@, {id}, status)]
    /\ UNCHANGED <<fail_fast, permits, run_pc, runnables>>
    /\ UNCHANGED <<erd_vars, dbml_vars>>

\* run_connector_steps: the report is made and the semaphore released.
Report(r) ==
    /\ run_pc[r] = "running"
    /\ executing[r] = {}
    /\ runnables[r] = <<>>
    /\ run_pc' = [run_pc EXCEPT ![r] = "reported"]
    /\ permits' = permits + 1
    /\ UNCHANGED <<fail_fast, runnables, executing, results>>
    /\ UNCHANGED <<erd_vars, dbml_vars>>

Init ==
    /\ fail_fast \in BOOLEAN
    /\ permits \in 1..MaxRuns
    /\ run_pc = [r \in Runs |-> "waiting"]
    /\ runnables = [r \in Runs |-> steps_to_run]
    /\ executing = [r \in Runs |-> {}]
    /\ results = [r \in Runs |-> <<>>]
    /\ ErdIdle
    /\ DbmlIdle

Next ==
    \E r \in Runs :
        \/ AcquireSemaphore(r)
        \/ SkipRemainingSteps(r)
        \/ StartSteps(r)
        \/ FinishStep(r)
        \/ Report(r)

\* The runs of the pipeline, one per connector, under one semaphore.
Spec == Init /\ [][Next]_vars

----------------------------------------------------------------------------
(* Claims about the pipeline *)

Order ==
    <<BUILD, AIRBYTE_ERD_GENERATE, AIRBYTE_DBML_GENERATE, AIRBYTE_DBML_UPLOAD>>

\* The steps of run r whose run() was ever called: those in progress and
\* those that returned SUCCESS or FAILURE.
Started(r) ==
    executing[r]
        \cup {id \in DOMAIN results[r] : results[r][id] \in {SUCCESS, FAILURE}}

Finished(r, id, status) == id \in DOMAIN results[r] /\ results[r][id] = status

\* C10: in one run the steps go build -> generate ERD -> generate DBML ->
\* upload DBML: a step has started only if the step before it finished
\* with SUCCESS, no two steps of a run execute at the same time, and no
\* step after a failed step has ever started.
C10_StepsRunInOrder ==
    \A r \in Runs :
        /\ Cardinality(executing[r]) <= 1
        /\ \A k \in 2..Len(Order) :
              Order[k] \in Started(r) => Finished(r, Order[k-1], SUCCESS)
        /\ \A j, k \in 1..Len(Order) :
              (j < k /\ Finished(r, Order[j], FAILURE))
                  => Order[k] \notin Started(r)

\* A run whose upload is executing after the three steps before it
\* succeeded, beside a run whose DBML generation failed and whose upload
\* was skipped.
C10_Witness ==
    \E r, q \in Runs :
        /\ executing[r] = {AIRBYTE_DBML_UPLOAD}
        /\ Finished(r, AIRBYTE_DBML_GENERATE, SUCCESS)
        /\ Finished(q, AIRBYTE_DBML_GENERATE, FAILURE)
        /\ Finished(q, AIRBYTE_DBML_UPLOAD, SKIPPED)

----------------------------------------------------------------------------
(* GenerateDbmlSchema._run: the type of a column *)

\* Longest list a property gives as its "type".
MaxTypes == 3

\* JSON-schema type names.
TypeNames == {"null", "string", "integer", "number"}

\* property_information["type"]: a str, or a list of str as json.load
\* returns it (any order, repetitions kept, possibly empty).
TypeDescriptors ==
    { PyStr(n) : n \in TypeNames }
        \cup { PyList(l) : l \in UNION { [1..k -> TypeNames]
                                         : k \in 0..MaxTypes } }

\* The catalogs of one stream "a" with one property "x" and no key.
TypedCatalogs ==
    { [streams |-> <<AirbyteStream(<<"a">>, (X :> d), <<>>)>>]
      : d \in TypeDescriptors }

\* The start of GenerateDbmlSchema._run on such a catalog, for a connector
\* without manifest whose schemas folder holds a.json.
InitExtractType ==
    /\ catalog \in TypedCatalogs
    /\ source_folder = [has_manifest |-> FALSE, schemas |-> {<<"a">>}]
    /\ relationships = <<>>
    /\ database = [tables |-> <<>>, refs |-> {}]
    /\ stream_i = 1
    /\ rel_i = 0
    /\ rel_todo = {}
    /\ source_dbml = NotYet
    /\ dbml_error = NotYet
    /\ dbml_pc = "tables"
    /\ ErdIdle
    /\ PipelineIdle

\* The loop of lines 232-263, where line 242 calls _extract_type.
NextExtractType == AddTable

SpecExtractType == InitExtractType /\ [][NextExtractType]_vars

----------------------------------------------------------------------------
(* Claims about GenerateDbmlSchema._extract_type *)

\* The "type" of property x of the stream.
property_type == catalog.streams[1].properties[X]

\* The names of a list other than "null", in order, repetitions kept.
NonNull(listed) == SelectSeq(listed, LAMBDA n : n # "null")

\* Line 242 has been reached for property x.
Extracted == stream_i > 1 \/ dbml_pc = "error"

\* _extract_type returned type: column x was built with it.
Returned(type) ==
    /\ dbml_pc # "error"
    /\ \E t \in BuiltTables :
          \E c \in t.columns : c.name = X /\ c.type = type

\* _extract_type raised: the build ended with its error and no table.
RaisedTypeError ==
    /\ dbml_pc = "error"
    /\ dbml_error = TypeError
    /\ database.tables = <<>>

\* C11: _extract_type returns a bare string type unchanged; for a list of
\* type names it returns the one name other than "null" when exactly one is
\* present, and raises (returning no type) when no name or two or more
\* different names other than "null" are present.  A list that repeats its
\* one name other than "null" is left to either outcome.
C11_ExtractTypeContract ==
    Extracted =>
        IF property_type.kind = "str"
        THEN Returned(property_type.val)
        ELSE LET others == NonNull(property_type.val)
             IN  /\ Len(others) = 1 => Returned(others[1])
                 /\ Cardinality(Range(others)) # 1 => RaisedTypeError

============================================================================
